---- MODULE Spec2Model ----
(***************************************************************************)
(* State-machine model of the stemr LNA path proposal (propose_lna) and of *)
(* the slice-sampler interval width adaptation (update_interval_widths).   *)
(*                                                                         *)
(* Numbers.  A double is an integer, or one of the three IEEE specials     *)
(* NaN, PosInf, NegInf.  Log-scale quantities (drift, square-root          *)
(* diffusion times draw) are counted in units of ln 2, so that             *)
(* expm1(k ln 2) = 2^k - 1 is exact; natural-scale quantities (increments, *)
(* compartment volumes, forcing flows) are counted in units of 1/Scale.    *)
(* Vectors and matrices are indexed from 0 as in the C++ source.           *)
(***************************************************************************)
EXTENDS Integers, Sequences, FiniteSets, TLC

\* number of grid times of the modelled invocations (lna_times.n_elem)
NTimes == 3

\* largest per-round / cumulative expansion or contraction count explored
MaxCount == 2

VARIABLES
    \* ---- propose_lna: arguments
    lna_pars, lna_draws, param_update_inds, forcing_inds, forcings_out,
    max_attempts,
    \* ---- propose_lna: locals
    pc, j, current_params, init_volumes, lna_state_vec, lna_drift,
    lna_diffusion, svd_U, good_svd, log_lna, nat_lna, lna_path, prev_path,
    draws,
    \* ---- the solver's internal parameter state (CALL_SET_ODE_PARAMS)
    installed_params,
    \* ---- outcome: the returned list, the message forwarded to R ("" when none)
    result, failure,
    \* ---- observation of the run: calls made to the two callbacks, the
    \*      intervals whose diffusion was handed to arma::svd, and the
    \*      volume change made by the forcing at each grid index
    call_log, svd_calls, forcing_delta,
    \* ---- update_interval_widths: arguments and the divisors it used
    afss

lna_vars == <<lna_pars, lna_draws, param_update_inds, forcing_inds,
              forcings_out, max_attempts, pc, j, current_params,
              init_volumes, lna_state_vec, lna_drift, lna_diffusion, svd_U,
              good_svd, log_lna, nat_lna, lna_path, prev_path, draws,
              installed_params, result, failure, call_log, svd_calls, forcing_delta>>

vars == <<lna_vars, afss>>

-----------------------------------------------------------------------------
(* IEEE doubles *)

NaN == 900001
PosInf == 900000
NegInf == -900000
Scale == 4

IsNaN(x) == x = NaN
IsInf(x) == x = PosInf \/ x = NegInf
IsFinite(x) == ~IsNaN(x) /\ ~IsInf(x)

Sign(x) == IF x > 0 THEN 1 ELSE IF x < 0 THEN -1 ELSE 0

XAdd(a, b) ==
    IF IsNaN(a) \/ IsNaN(b) THEN NaN
    ELSE IF IsInf(a) THEN (IF IsInf(b) /\ b # a THEN NaN ELSE a)
    ELSE IF IsInf(b) THEN b
    ELSE a + b

XMul(a, b) ==
    IF IsNaN(a) \/ IsNaN(b) THEN NaN
    ELSE IF IsInf(a) \/ IsInf(b)
         THEN (IF Sign(a) * Sign(b) = 0 THEN NaN
               ELSE IF Sign(a) * Sign(b) > 0 THEN PosInf ELSE NegInf)
    ELSE a * b

XAbs(a) == IF IsNaN(a) THEN NaN ELSE IF a < 0 THEN 0 - a ELSE a

\* a / b for a divisor b >= 0 (a norm); exact on the inputs explored
XDiv(a, b) ==
    IF IsNaN(a) \/ IsNaN(b) THEN NaN
    ELSE IF IsInf(b) THEN (IF IsInf(a) THEN NaN ELSE 0)
    ELSE IF IsInf(a) THEN a
    ELSE IF a < 0 THEN 0 - ((0 - a) \div b) ELSE a \div b

\* x < 0 as a double comparison: false for NaN
XNeg(x) == ~IsNaN(x) /\ x < 0

RECURSIVE XSum(_, _)
\* f[0] + ... + f[n-1]
XSum(f, n) == IF n = 0 THEN 0 ELSE XAdd(XSum(f, n - 1), f[n - 1])

\* expm1 of k ln 2, in units of 1/Scale
Expm1(x) ==
    IF IsNaN(x) THEN NaN
    ELSE IF x = PosInf THEN PosInf
    ELSE IF x = NegInf THEN 0 - Scale
    ELSE IF x >= 0 THEN Scale * (2 ^ x) - Scale
    ELSE (Scale \div (2 ^ (0 - x))) - Scale

-----------------------------------------------------------------------------
(* the fixed arguments of the modelled invocations *)

Times == 0 .. (NTimes - 1)
lna_times == [t \in Times |-> 2 * t]
n_times == NTimes

\* one event S -> I over the compartments (S, I); rows are compartments
stoich_matrix == << <<-1>>, <<1>> >>
n_comps == Len(stoich_matrix)
n_events == Len(stoich_matrix[1])
n_odes == n_events + n_events * n_events
Comps == 0 .. (n_comps - 1)
Events == 0 .. (n_events - 1)
Stoich(c, e) == stoich_matrix[c + 1][e + 1]

\* columns of lna_pars: [ rate | volume of S, volume of I | forcing flow ]
lna_param_inds == <<0>>
lna_tcovar_inds == <<3>>
init_start == Len(lna_param_inds)
n_tcovar == Len(lna_tcovar_inds)
n_pars == init_start + n_comps + n_tcovar
ParCols == 0 .. (n_pars - 1)

\* one forcing type, its flow read from the time-varying column; slice 0 of
\* forcing_transfers moves what leaves a compartment into the other one
forcing_tcov_inds == <<3>>
n_forcings == Len(forcing_tcov_inds)
forcing_transfers == << << <<-1, 1>>, <<1, -1>> >> >>
Transfer(s, c, d) == forcing_transfers[s + 1][c + 1][d + 1]

ZeroVec(S) == [i \in S |-> 0]

Vec(seq) == [i \in 0 .. (Len(seq) - 1) |-> seq[i + 1]]
Forcings == 0 .. (n_forcings - 1)
Intervals == 0 .. (n_times - 2)

NoFailure == ""
IntegrationFailure == "Integration failed."
DecompositionFailure == "SVD failed."
NegativeIncrement == "Negative increment."
NegativeVolume == "Negative compartment volumes."

-----------------------------------------------------------------------------
(* the steps of propose_lna as operators *)

\* arma::vec init_volumes(current_params.begin() + init_start, n_comps)
InitVolumes(params) == [c \in Comps |-> params[init_start + c]]

\* arma::normalise(v, 1): v over its 1-norm, v itself when the norm is 0
Normalise1(v) ==
    LET norm_val == XSum([c \in Comps |-> XAbs(v[c])], n_comps)
        divisor == IF norm_val # 0 THEN norm_val ELSE 1
    IN [c \in Comps |-> XDiv(v[c], divisor)]

\* one pass of the forcing loop body, for forcing type s at grid index row
ForcingStep(vols, row, s) ==
    LET forcing_flow == lna_pars[row][forcing_tcov_inds[s + 1]]
        weighted == [c \in Comps |-> XMul(forcings_out[c][s], vols[c])]
        normalised == Normalise1(weighted)
        forcing_distvec == [c \in Comps |-> XMul(forcing_flow, normalised[c])]
    IN [c \in Comps |->
          XAdd(vols[c],
               XSum([d \in Comps |-> XMul(Transfer(s, c, d), forcing_distvec[d])],
                    n_comps))]

RECURSIVE ForcingLoop(_, _, _)
\* for(s = s0; s < n_forcings; ++s) applied to the volumes
ForcingLoop(vols, row, s) ==
    IF s >= n_forcings THEN vols
    ELSE ForcingLoop(ForcingStep(vols, row, s), row, s + 1)

\* the volumes after the forcing block at grid index row
ApplyForcings(vols, row) ==
    IF forcing_inds[row] THEN ForcingLoop(vols, row, 0) ELSE vols

\* the volumes written to column 0 of prev_path
\* (faulty variant: the census taken after the forcing at the first time)
VolumesAtFirstCensus_forced(iv) == ApplyForcings(iv, 0)
VolumesAtFirstCensus(iv) == iv

\* a matrix column [time; values] as rows 0 .. n
PathMatrix(n) == [r \in 0 .. n |-> [t \in Times |-> IF r = 0 THEN lna_times[t] ELSE 0]]
SetColumn(M, n, t, v) ==
    [r \in 0 .. n |-> IF r = 0 THEN M[r] ELSE [M[r] EXCEPT ![t] = v[r - 1]]]
Column(M, n, t) == [i \in 0 .. (n - 1) |-> M[i + 1][t]]
Transposed(M, n) == [t \in Times |-> [r \in 0 .. n |-> M[r][t]]]

\* arma::mat draws(draws_rcpp.begin(), n_events, n_times-1, true)
DrawMatrix(v) == [e \in Events |-> [i \in Intervals |-> v[i * n_events + e]]]

HasNan(v, n) == \E i \in 0 .. (n - 1) : IsNaN(v[i])

\* lna_drift.has_nan() || lna_diffusion.has_nan()
\* (faulty variant: the diffusion is not tested)
IntegrationFailed_driftonly(drift, diffusion) == HasNan(drift, n_events)
IntegrationFailed(drift, diffusion) ==
    HasNan(drift, n_events) \/ \E e \in Events : HasNan(diffusion[e], n_events)

ISqrt(n) == CHOOSE r \in 0 .. n : r * r = n

\* U diag(sqrt d) V' of the 1 x 1 matrix (x), zeroed where x is exactly 0
SqrtEntry(x) == IF x = 0 THEN 0 ELSE Sign(x) * ISqrt(XAbs(x))

\* what arma::svd and the square-root completion leave: for a finite matrix
\* the square root; for a non-finite one the decomposition either reports
\* failure or returns NaN factors, depending on the library build
SvdOutcomes(D) ==
    IF \A e \in Events : \A f \in Events : IsFinite(D[e][f])
    THEN {[ok |-> TRUE, sqrt |-> [e \in Events |-> [f \in Events |-> SqrtEntry(D[e][f])]]]}
    ELSE {[ok |-> FALSE, sqrt |-> svd_U],
          [ok |-> TRUE, sqrt |-> [e \in Events |-> [f \in Events |-> NaN]]]}

\* log_lna = lna_drift + svd_U * draws.col(j)
MapDraws(drift, sqrtm, col) ==
    [e \in Events |->
       XAdd(drift[e], XSum([f \in Events |-> XMul(sqrtm[e][f], draws[f][col])], n_events))]

\* nat_lna = expm1(log_lna)
\* (faulty variant: exp in place of expm1)
NaturalScale_exp(log_inc) == [e \in Events |-> XAdd(Expm1(log_inc[e]), Scale)]
NaturalScale(log_inc) == [e \in Events |-> Expm1(log_inc[e])]

\* init_volumes += stoich_matrix * nat_lna
\* (faulty variant: the signs of the stoichiometry are lost)
UpdateVolumes_unsigned(vols, nat) ==
    [c \in Comps |->
       XAdd(vols[c], XSum([e \in Events |-> XMul(XAbs(Stoich(c, e)), nat[e])], n_events))]
UpdateVolumes(vols, nat) ==
    [c \in Comps |->
       XAdd(vols[c], XSum([e \in Events |-> XMul(Stoich(c, e), nat[e])], n_events))]

\* any(nat_lna < 0)
AnyNegativeIncrement(nat) == \E e \in Events : XNeg(nat[e])

\* any(init_volumes < 0)
\* (faulty variant: the volumes are not tested)
AnyNegativeVolume_unchecked(vols) == FALSE
AnyNegativeVolume(vols) == \E c \in Comps : XNeg(vols[c])

\* std::copy of the last n_tcovar entries of lna_pars.row(row)
\* (faulty variant: the whole row is copied)
RefreshTail_wholerow(params, row) == lna_pars[row]
RefreshTail(params, row) ==
    [k \in ParCols |-> IF k >= n_pars - n_tcovar THEN lna_pars[row][k] ELSE params[k]]

\* std::copy of init_volumes to current_params.begin() + init_start
CopyVolumes(params, vols) ==
    [k \in ParCols |->
       IF k >= init_start /\ k < init_start + n_comps THEN vols[k - init_start]
       ELSE params[k]]

\* ++j of the interval loop
\* (faulty variant: the interval is tried again)
NextInterval_again(i) == i
NextInterval(i) == i + 1

VecDiff(a, b) ==
    [c \in Comps |-> IF IsFinite(a[c]) /\ IsFinite(b[c]) THEN a[c] - b[c] ELSE NaN]

\* a call as the callbacks see it: the snapshot installed for interval i,
\* or the state vector the solver left for interval i
SetParamsCall(i, params) == [call |-> "set_params", interval |-> i, arg |-> params]
IntegrateCall(i, out) == [call |-> "integrate", interval |-> i, arg |-> out]

-----------------------------------------------------------------------------
(* the inputs explored *)

InitialVolumeChoices == {Vec(<<2 * Scale, 0>>), Vec(<<Scale, Scale>>)}
FlowChoices == {0, 2 * Scale}
DrawChoices == {-1, 0, 1}
MaxAttemptsChoices == {1, 3}

\* [drift | diffusion] as the solver leaves them in lna_state_vec
SolverOutputs ==
    {Vec(<<0, 0>>), Vec(<<1, 0>>), Vec(<<0, 1>>), Vec(<<1, 1>>),
     Vec(<<NaN, 0>>), Vec(<<0, NaN>>), Vec(<<PosInf, 0>>), Vec(<<0, PosInf>>)}

\* row t of the trajectory: a rate, the initial volumes (row 0), and a
\* forcing flow that differs from row to row
ParsRow(t, v, f) ==
    [k \in ParCols |->
       IF k < init_start THEN 1 + t
       ELSE IF k < init_start + n_comps THEN (IF t = 0 THEN v[k - init_start] ELSE 0)
       ELSE f + t]

\* draws alternate in sign from interval to interval
DrawVector(d) ==
    [i \in 0 .. (n_events * (n_times - 1) - 1) |->
       IF (i \div n_events) % 2 = 0 THEN d ELSE 0 - d]

-----------------------------------------------------------------------------
(* propose_lna *)

NoResult == [draws |-> <<>>, lna_path |-> <<>>, prev_path |-> <<>>]

\* the state at entry: the arguments, and the locals not yet assigned
LnaEntry(v, f, d, upd, frc, out, att) ==
    /\ lna_pars = [t \in Times |-> ParsRow(t, v, f)]
    /\ lna_draws = DrawVector(d)
    /\ param_update_inds = upd
    /\ forcing_inds = frc
    /\ forcings_out = [c \in Comps |-> [s \in Forcings |-> IF c = out THEN 1 ELSE 0]]
    /\ max_attempts = att
    /\ pc = "start"
    /\ j = 0
    /\ current_params = ZeroVec(ParCols)
    /\ installed_params = ZeroVec(ParCols)
    /\ init_volumes = ZeroVec(Comps)
    /\ lna_state_vec = ZeroVec(0 .. (n_odes - 1))
    /\ lna_drift = ZeroVec(Events)
    /\ lna_diffusion = [e \in Events |-> ZeroVec(Events)]
    /\ svd_U = [e \in Events |-> ZeroVec(Events)]
    /\ good_svd = TRUE
    /\ log_lna = ZeroVec(Events)
    /\ nat_lna = ZeroVec(Events)
    /\ lna_path = PathMatrix(n_events)
    /\ prev_path = PathMatrix(n_comps)
    /\ draws = [e \in Events |-> ZeroVec(Intervals)]
    /\ result = NoResult
    /\ failure = NoFailure
    /\ call_log = <<>>
    /\ svd_calls = {}
    /\ forcing_delta = [t \in Times |-> ZeroVec(Comps)]

LnaInit ==
    \E v \in InitialVolumeChoices, f \in FlowChoices, d \in DrawChoices,
       upd \in [Times -> BOOLEAN], frc \in [Times -> BOOLEAN],
       out \in Comps, att \in MaxAttemptsChoices :
        /\ ~upd[0]
        /\ LnaEntry(v, f, d, upd, frc, out, att)

inputs == <<lna_pars, lna_draws, param_update_inds, forcing_inds, forcings_out,
            max_attempts>>

\* lines 51-108: snapshot from row 0, install it, census column 0, forcing
\* at the first time, copy of the draws
Initialize ==
    /\ pc = "start" /\ failure = NoFailure
    /\ LET params == lna_pars[0]
           iv == InitVolumes(params)
           fv == ApplyForcings(iv, 0)
       IN /\ current_params' = params
          /\ installed_params' = params
          /\ call_log' = Append(call_log, SetParamsCall(0, params))
          /\ prev_path' = SetColumn(PathMatrix(n_comps), n_comps, 0, VolumesAtFirstCensus(iv))
          /\ lna_path' = PathMatrix(n_events)
          /\ init_volumes' = fv
          /\ forcing_delta' = [forcing_delta EXCEPT ![0] = VecDiff(fv, iv)]
    /\ draws' = DrawMatrix(lna_draws)
    /\ pc' = "loop"
    /\ j' = 0
    /\ UNCHANGED <<inputs, lna_state_vec, lna_drift, lna_diffusion, svd_U, good_svd,
                   log_lna, nat_lna, result, failure, svd_calls, afss>>

\* lines 111-123: the solver integrates interval j from the installed
\* snapshot; its output is whatever the external solver produces
Integrate ==
    /\ pc = "loop" /\ failure = NoFailure
    /\ j < n_times - 1
    /\ \E out \in SolverOutputs :
         /\ lna_state_vec' = out
         /\ lna_drift' = [e \in Events |-> out[e]]
         /\ lna_diffusion' = [e \in Events |-> [f \in Events |-> out[n_events + f * n_events + e]]]
         /\ call_log' = Append(call_log, IntegrateCall(j, out))
    /\ pc' = "map"
    /\ UNCHANGED <<inputs, j, current_params, installed_params, init_volumes, svd_U,
                   good_svd, log_lna, nat_lna, lna_path, prev_path, draws, result,
                   failure, svd_calls, forcing_delta, afss>>

\* lines 126-158: NaN check, decomposition, mapping of the draws
MapPerturbation ==
    /\ pc = "map" /\ failure = NoFailure
    /\ \/ /\ IntegrationFailed(lna_drift, lna_diffusion)
          /\ good_svd' = FALSE
          /\ failure' = IntegrationFailure
          /\ UNCHANGED <<pc, svd_U, log_lna, svd_calls>>
       \/ /\ ~IntegrationFailed(lna_drift, lna_diffusion)
          /\ svd_calls' = svd_calls \cup {j}
          /\ \E r \in SvdOutcomes(lna_diffusion) :
               \/ /\ ~r.ok
                  /\ good_svd' = FALSE
                  /\ failure' = DecompositionFailure
                  /\ UNCHANGED <<pc, svd_U, log_lna>>
               \/ /\ r.ok
                  /\ good_svd' = TRUE
                  /\ svd_U' = r.sqrt
                  /\ log_lna' = MapDraws(lna_drift, r.sqrt, j)
                  /\ pc' = "increment"
                  /\ UNCHANGED failure
    /\ UNCHANGED <<inputs, j, current_params, installed_params, init_volumes,
                   lna_state_vec, lna_drift, lna_diffusion, nat_lna, lna_path,
                   prev_path, draws, result, call_log, forcing_delta, afss>>

\* lines 160-186: natural-scale increment, volume update, the two checks,
\* and the census of column j+1
Increment ==
    /\ pc = "increment" /\ failure = NoFailure
    /\ LET nat == NaturalScale(log_lna)
           vols == UpdateVolumes(init_volumes, nat)
       IN /\ nat_lna' = nat
          /\ init_volumes' = vols
          /\ \/ /\ AnyNegativeIncrement(nat)
                /\ failure' = NegativeIncrement
                /\ UNCHANGED <<pc, lna_path, prev_path>>
             \/ /\ ~AnyNegativeIncrement(nat)
                /\ AnyNegativeVolume(vols)
                /\ failure' = NegativeVolume
                /\ UNCHANGED <<pc, lna_path, prev_path>>
             \/ /\ ~AnyNegativeIncrement(nat)
                /\ ~AnyNegativeVolume(vols)
                /\ lna_path' = SetColumn(lna_path, n_events, j + 1, nat)
                /\ prev_path' = SetColumn(prev_path, n_comps, j + 1, vols)
                /\ pc' = "forcing"
                /\ UNCHANGED failure
    /\ UNCHANGED <<inputs, j, current_params, installed_params, lna_state_vec,
                   lna_drift, lna_diffusion, svd_U, good_svd, log_lna, draws, result,
                   call_log, svd_calls, forcing_delta, afss>>

\* lines 188-212: forcing at grid index j+1 and its check
Forcing ==
    /\ pc = "forcing" /\ failure = NoFailure
    /\ LET fv == ApplyForcings(init_volumes, j + 1)
       IN /\ init_volumes' = fv
          /\ forcing_delta' = [forcing_delta EXCEPT ![j + 1] = VecDiff(fv, init_volumes)]
          /\ \/ /\ forcing_inds[j + 1]
                /\ AnyNegativeVolume(fv)
                /\ failure' = NegativeVolume
                /\ UNCHANGED pc
             \/ /\ ~(forcing_inds[j + 1] /\ AnyNegativeVolume(fv))
                /\ pc' = "params"
                /\ UNCHANGED failure
    /\ UNCHANGED <<inputs, j, current_params, installed_params, lna_state_vec,
                   lna_drift, lna_diffusion, svd_U, good_svd, log_lna, nat_lna,
                   lna_path, prev_path, draws, result, call_log, svd_calls, afss>>

\* lines 214-229: covariate refresh, volumes into the snapshot, install
UpdateParams ==
    /\ pc = "params" /\ failure = NoFailure
    /\ LET refreshed == IF param_update_inds[j + 1]
                        THEN RefreshTail(current_params, j + 1)
                        ELSE current_params
           params == CopyVolumes(refreshed, init_volumes)
       IN /\ current_params' = params
          /\ installed_params' = params
          /\ call_log' = Append(call_log, SetParamsCall(NextInterval(j), params))
    /\ j' = NextInterval(j)
    /\ pc' = "loop"
    /\ UNCHANGED <<inputs, init_volumes, lna_state_vec, lna_drift, lna_diffusion,
                   svd_U, good_svd, log_lna, nat_lna, lna_path, prev_path, draws,
                   result, failure, svd_calls, forcing_delta, afss>>

\* lines 232-234: the list returned once every interval is done
Return ==
    /\ pc = "loop" /\ failure = NoFailure
    /\ j >= n_times - 1
    /\ result' = [draws |-> draws,
                  lna_path |-> Transposed(lna_path, n_events),
                  prev_path |-> Transposed(prev_path, n_comps)]
    /\ pc' = "done"
    /\ UNCHANGED <<inputs, j, current_params, installed_params, init_volumes,
                   lna_state_vec, lna_drift, lna_diffusion, svd_U, good_svd,
                   log_lna, nat_lna, lna_path, prev_path, draws, failure, call_log,
                   svd_calls, forcing_delta, afss>>

-----------------------------------------------------------------------------
(* update_interval_widths *)

(* A double is here a fraction <<numerator, divisor>> with divisor >= 0; a  *)
(* divisor of 0 is the outcome of a division by zero (NaN for 0/0,         *)
(* otherwise an infinity).  interval_widths holds the logarithm of each    *)
(* width, so that exp(log(w) + d) is the addition of d.                    *)

AfssComps == 0 .. 1
Counts == 0 .. MaxCount

Q(n) == <<n, 1>>
QAdd(a, b) == <<a[1] * b[2] + b[1] * a[2], a[2] * b[2]>>
QNeg(a) == <<0 - a[1], a[2]>>
QMul(a, b) == <<a[1] * b[1], a[2] * b[2]>>
QDiv(a, b) ==
    IF a[2] * b[1] < 0 THEN <<0 - (a[1] * b[2]), 0 - (a[2] * b[1])>>
    ELSE <<a[1] * b[2], a[2] * b[1]>>
\* x == 0 as a double comparison
QIsZero(a) == a[1] = 0 /\ a[2] # 0

adaptation_factor == Q(1)
target_ratio == <<1, 2>>

AfssIdle == [pc |-> "idle"]

AfssEntry(ne, nc, ce, cc) ==
    [pc |-> "entry",
     interval_widths |-> [i \in AfssComps |-> Q(0)],
     n_expansions_afss |-> [i \in AfssComps |-> Q(ne[i])],
     n_contractions_afss |-> [i \in AfssComps |-> Q(nc[i])],
     c_expansions_afss |-> [i \in AfssComps |-> Q(ce[i])],
     c_contractions_afss |-> [i \in AfssComps |-> Q(cc[i])],
     slice_ratios |-> [i \in AfssComps |-> Q(0)],
     ratio_divisor |-> [i \in AfssComps |-> Q(1)],
     width_divisor |-> [i \in AfssComps |-> Q(1)]]

\* slice_ratios = c_expansions_afss / (c_expansions_afss + c_contractions_afss)
SliceRatios(ce, cc) == [i \in AfssComps |-> QDiv(ce[i], QAdd(ce[i], cc[i]))]

\* n.elem(find(n == 0)) = ratios.elem(find(n == 0))
SubstituteZeros(n, ratios) ==
    [i \in AfssComps |-> IF QIsZero(n[i]) THEN ratios[i] ELSE n[i]]

\* exp(log(w) + adaptation_factor * (ne / (ne + nc) - target_ratio))
RobbinsMonro(w, ne, nc) ==
    [i \in AfssComps |->
       QAdd(w[i],
            QMul(adaptation_factor,
                 QAdd(QDiv(ne[i], QAdd(ne[i], nc[i])), QNeg(target_ratio))))]

UpdateIntervalWidths ==
    /\ afss.pc = "entry"
    /\ LET ratios == SliceRatios(afss.c_expansions_afss, afss.c_contractions_afss)
           ne == SubstituteZeros(afss.n_expansions_afss, ratios)
           nc == SubstituteZeros(afss.n_contractions_afss, ratios)
       IN afss' = [afss EXCEPT
                     !.pc = "done",
                     !.slice_ratios = ratios,
                     !.ratio_divisor = [i \in AfssComps |->
                         QAdd(afss.c_expansions_afss[i], afss.c_contractions_afss[i])],
                     !.width_divisor = [i \in AfssComps |-> QAdd(ne[i], nc[i])],
                     !.interval_widths = RobbinsMonro(afss.interval_widths, ne, nc),
                     !.n_expansions_afss = [i \in AfssComps |-> Q(0)],
                     !.n_contractions_afss = [i \in AfssComps |-> Q(0)]]
    /\ UNCHANGED lna_vars

\* the sampler calls the update with the counts of the round just finished
\* and the cumulative counts, which include them
InitAFSS ==
    /\ LnaEntry(Vec(<<Scale, Scale>>), 0, 0, [t \in Times |-> FALSE],
                [t \in Times |-> FALSE], 0, 1)
    /\ \E ne \in [AfssComps -> Counts], nc \in [AfssComps -> Counts],
          ce \in [AfssComps -> Counts], cc \in [AfssComps -> Counts] :
         /\ \A i \in AfssComps : ne[i] <= ce[i] /\ nc[i] <= cc[i]
         /\ afss = AfssEntry(ne, nc, ce, cc)

NextAFSS == UpdateIntervalWidths

SpecAFSS == InitAFSS /\ [][NextAFSS]_vars

-----------------------------------------------------------------------------

Init == LnaInit /\ afss = AfssIdle

Next ==
    \/ Initialize
    \/ Integrate
    \/ MapPerturbation
    \/ Increment
    \/ Forcing
    \/ UpdateParams
    \/ Return

Spec == Init /\ [][Next]_vars

-----------------------------------------------------------------------------
(* properties *)

\* row t of a returned path: its time, and its values
ResultTime(path, t) == path[t][0]
ResultVolumes(t) == [c \in Comps |-> result.prev_path[t][c + 1]]
ResultIncrements(t) == [e \in Events |-> result.lna_path[t][e + 1]]

Returned == pc = "done"
Failed == failure # NoFailure

\* stoich_matrix * inc, component c
StoichTimes(inc, c) == XSum([e \in Events |-> XMul(Stoich(c, e), inc[e])], n_events)

FiniteResult ==
    /\ \A t \in Times : \A c \in Comps : IsFinite(ResultVolumes(t)[c])
    /\ \A t \in Times : \A e \in Events : IsFinite(ResultIncrements(t)[e])

IntegrateCalls == SelectSeq(call_log, LAMBDA c : c.call = "integrate")

\* C1 (as stated): in every returned result, row 0 of the prevalence path
\* holds the initial volumes after the forcing scheduled at grid time 0.
C1_FirstRowIsPostForcing ==
    Returned => ResultVolumes(0) = ApplyForcings(InitVolumes(lna_pars[0]), 0)

\* C1 (amended): in every returned result, row 0 of the prevalence path holds
\* the initial volumes read from trajectory row 0, before the forcing
\* scheduled at grid time 0 is applied.
C1_FirstRowIsPreForcing ==
    Returned => ResultVolumes(0) = InitVolumes(lna_pars[0])

\* a returned run whose forcing at grid time 0 moved mass
C1_Witness ==
    /\ Returned
    /\ forcing_inds[0]
    /\ \E c \in Comps : forcing_delta[0][c] # 0

\* C2 (as stated): in every returned result, for every interval i, rows i+1
\* of both paths carry grid time t_{i+1}, and prevalence row i+1 equals
\* prevalence row i plus stoich_matrix times incidence row i+1 plus the
\* forcing delta applied at grid index i+1.
C2_ForcingDeltaOfSameIndex ==
    (Returned /\ FiniteResult) =>
        \A i \in Intervals :
            /\ ResultTime(result.lna_path, i + 1) = lna_times[i + 1]
            /\ ResultTime(result.prev_path, i + 1) = lna_times[i + 1]
            /\ \A c \in Comps :
                 ResultVolumes(i + 1)[c] =
                    ResultVolumes(i)[c] + StoichTimes(ResultIncrements(i + 1), c)
                    + forcing_delta[i + 1][c]

\* C2 (amended): in every returned result (of finite values), for every
\* interval i, rows i+1 of both paths carry grid time t_{i+1}, and prevalence
\* row i+1 equals prevalence row i plus stoich_matrix times incidence row i+1
\* plus the forcing delta applied at grid index i, the left end of the
\* interval (zero when no forcing is scheduled there).
C2_ForcingDeltaOfPreviousIndex ==
    (Returned /\ FiniteResult) =>
        \A i \in Intervals :
            /\ ResultTime(result.lna_path, i + 1) = lna_times[i + 1]
            /\ ResultTime(result.prev_path, i + 1) = lna_times[i + 1]
            /\ \A c \in Comps :
                 ResultVolumes(i + 1)[c] =
                    ResultVolumes(i)[c] + StoichTimes(ResultIncrements(i + 1), c)
                    + forcing_delta[i][c]

\* a returned finite run with a non-zero increment and a forcing that moved
\* mass at the left end of an interval
C2_Witness ==
    /\ Returned /\ FiniteResult
    /\ \E i \in Intervals : ResultIncrements(i + 1)[0] # 0
    /\ \E i \in Intervals : i > 0 /\ forcing_delta[i][0] # 0

\* the increment of interval j has just been computed and checked
JustIncremented ==
    \/ pc = "increment" /\ Failed
    \/ pc = "forcing" /\ ~Failed

NegativeDraw == \E e \in Events : draws[e][j] < 0
SomeVolumeNegative == \E c \in Comps : XNeg(init_volumes[c])
SomeIncrementNegative == \E e \in Events : XNeg(nat_lna[e])
NoNegativeVolumeReturned ==
    Returned => \A t \in Times \ {0} : \A c \in Comps : ~XNeg(ResultVolumes(t)[c])

\* C3 (as stated): when the draw of an interval is negative and the
\* resulting increment drives a volume below zero, the invocation fails with
\* NegativeVolume; and no returned prevalence path holds a negative volume in
\* a row written by the interval loop.
C3_NegativeDrawFailsWithNegativeVolume ==
    /\ (JustIncremented /\ NegativeDraw /\ SomeVolumeNegative) => failure = NegativeVolume
    /\ NoNegativeVolumeReturned

\* C3 (amended): when the increment of an interval has a negative component
\* the invocation fails with NegativeIncrement, whatever the volumes; when
\* it has none and drives a volume below zero the invocation fails with
\* NegativeVolume; and no returned prevalence path holds a negative volume
\* in a row written by the interval loop.
C3_NegativeIncrementFirst ==
    /\ JustIncremented =>
         failure = (IF SomeIncrementNegative THEN NegativeIncrement
                    ELSE IF SomeVolumeNegative THEN NegativeVolume
                    ELSE NoFailure)
    /\ NoNegativeVolumeReturned

\* a negative draw gave a negative increment that drove a volume below zero
C3_Witness ==
    /\ pc = "increment" /\ failure = NegativeIncrement
    /\ NegativeDraw /\ SomeVolumeNegative

\* the forcing block of a grid index has just run: index 0 before the first
\* integration, index j+1 inside the loop
JustForced ==
    \/ pc = "loop" /\ j = 0 /\ forcing_inds[0]
    \/ pc = "forcing" /\ Failed
    \/ pc = "params" /\ forcing_inds[j + 1]

\* C4: at every grid time with a forcing scheduled, grid time 0 included,
\* negative volumes after the forcing make the invocation fail with
\* NegativeVolume, so no invocation continues with a negative volume.
C4_ForcingNeverLeavesNegativeVolume ==
    (JustForced /\ SomeVolumeNegative) => failure = NegativeVolume

\* the solver output of interval j has been through the NaN check
JustMapped ==
    \/ pc = "map" /\ Failed
    \/ pc \in {"increment", "forcing", "params"}

SolverOutputNonFinite == \E i \in 0 .. (n_odes - 1) : ~IsFinite(lna_state_vec[i])
SolverOutputHasNaN == \E i \in 0 .. (n_odes - 1) : IsNaN(lna_state_vec[i])

\* C5 (as stated): a drift or diffusion holding a NaN or an infinity makes
\* the invocation fail with IntegrationFailure, without the decomposition
\* being attempted for that interval.
C5_NonFiniteFailsIntegration ==
    (JustMapped /\ SolverOutputNonFinite) =>
        (failure = IntegrationFailure /\ j \notin svd_calls)

\* C5 (amended): a drift or diffusion holding a NaN makes the invocation fail
\* with IntegrationFailure, without the decomposition being attempted for
\* that interval (an infinity is not detected: it reaches the decomposition).
C5_NaNFailsIntegration ==
    (JustMapped /\ SolverOutputHasNaN) =>
        (failure = IntegrationFailure /\ j \notin svd_calls)

\* the diffusion of the second interval held a NaN and the run failed
C5_Witness ==
    /\ pc = "map" /\ failure = IntegrationFailure
    /\ j = 1
    /\ IsNaN(lna_diffusion[0][0])
    /\ IsFinite(lna_drift[0])

ZeroDraws == \A i \in DOMAIN lna_draws : lna_draws[i] = 0
ZeroDrift ==
    \A k \in 1 .. Len(IntegrateCalls) : \A e \in Events : IntegrateCalls[k].arg[e] = 0
FiniteSolverOutput ==
    \A k \in 1 .. Len(IntegrateCalls) :
        \A i \in 0 .. (n_odes - 1) : IsFinite(IntegrateCalls[k].arg[i])

\* C7 (as stated): for valid inputs (the solver output being finite) with
\* zero draws and zero drift in every interval, every recorded increment is
\* zero and the prevalence path is constant over all grid times.
C7_ConstantPrevalence ==
    (Returned /\ ZeroDraws /\ ZeroDrift /\ FiniteSolverOutput) =>
        /\ \A t \in Times : \A e \in Events : ResultIncrements(t)[e] = 0
        /\ \A t \in Times : ResultVolumes(t) = ResultVolumes(0)

\* C7 (amended): with zero draws, and zero drift and a finite diffusion in
\* every interval, every recorded increment is zero and the prevalence path
\* changes only by forcings: row 0 holds the initial volumes and row i+1
\* holds row i plus the forcing delta applied at grid index i; the path is
\* constant when no forcing moves mass.
C7_PrevalenceMovesOnlyByForcing ==
    (Returned /\ ZeroDraws /\ ZeroDrift /\ FiniteSolverOutput) =>
        /\ \A t \in Times : \A e \in Events : ResultIncrements(t)[e] = 0
        /\ ResultVolumes(0) = InitVolumes(lna_pars[0])
        /\ \A i \in Intervals : \A c \in Comps :
             ResultVolumes(i + 1)[c] = ResultVolumes(i)[c] + forcing_delta[i][c]
        /\ (\A i \in Intervals : forcing_delta[i] = ZeroVec(Comps)) =>
             \A t \in Times : ResultVolumes(t) = ResultVolumes(0)

\* a returned run with zero draws and zero drift, a non-zero diffusion, and
\* a forcing that moved mass
C7_Witness ==
    /\ Returned /\ ZeroDraws /\ ZeroDrift /\ FiniteSolverOutput
    /\ \E k \in 1 .. Len(IntegrateCalls) : IntegrateCalls[k].arg[n_events] # 0
    /\ \E i \in Intervals : forcing_delta[i] # ZeroVec(Comps)

\* C8: for every component and every combination of counts, neither the
\* divisor of the running ratio nor the divisor n_expansions +
\* n_contractions of the width update is zero.
C8_NoZeroDivisor ==
    afss.pc = "done" =>
        \A i \in AfssComps :
            /\ ~QIsZero(afss.ratio_divisor[i])
            /\ ~QIsZero(afss.width_divisor[i])

\* the calls alternate set_params, integrate, set_params, ...
CallsAlternate ==
    \A k \in 1 .. Len(call_log) :
        call_log[k].call = (IF k % 2 = 1 THEN "set_params" ELSE "integrate")

\* C9: at every integration call, interval 0 included, the volume sub-range
\* of the snapshot last installed holds the current compartment volumes
\* (those the increment of the interval is added to); and set_params is
\* called once at initialization and once between consecutive integrations.
C9_InstalledVolumesAreCurrent ==
    /\ CallsAlternate
    /\ pc = "map" => InitVolumes(installed_params) = init_volumes

TailCols == {k \in ParCols : k >= n_pars - n_tcovar}
VolumeCols == {k \in ParCols : k >= init_start /\ k < init_start + n_comps}

\* the largest i in 1 .. n with param_update_inds[i] set, 0 if none
LastUpdate(n) ==
    LET S == {i \in 1 .. n : param_update_inds[i]}
    IN IF S = {} THEN 0 ELSE CHOOSE i \in S : \A k \in S : k <= i

\* C10: the step that ends interval j changes the snapshot outside its
\* volume sub-range only when param_update_inds[j+1] is set, and then only
\* its last n_tcovar entries, which become those of trajectory row j+1; at
\* the integration of interval j the tail of the installed snapshot is that
\* of the row of the latest update (row 0 if none) and the entries outside
\* the tail and the volume sub-range are those of row 0; lna_pars and
\* lna_draws never change.
C10_RefreshTouchesOnlyTail ==
    [][/\ lna_pars' = lna_pars
       /\ lna_draws' = lna_draws
       /\ (pc = "params" /\ pc' = "loop") =>
            /\ \A k \in TailCols :
                 current_params'[k] = (IF param_update_inds[j + 1]
                                       THEN lna_pars[j + 1][k] ELSE current_params[k])
            /\ \A k \in ParCols \ (TailCols \cup VolumeCols) :
                 current_params'[k] = current_params[k]
       /\ pc' = "map" =>
            /\ \A k \in TailCols : installed_params'[k] = lna_pars[LastUpdate(j')][k]
            /\ \A k \in ParCols \ (TailCols \cup VolumeCols) :
                 installed_params'[k] = lna_pars[0][k]]_vars

\* the second interval is integrated after a refresh at grid index 1
C10_Witness ==
    /\ pc = "map"
    /\ j = 1
    /\ param_update_inds[1]
    /\ installed_params[n_pars - 1] = lna_pars[1][n_pars - 1]
    /\ installed_params[n_pars - 1] # lna_pars[0][n_pars - 1]

====
